---- MODULE Spec2Model ----
(***************************************************************************)
(* HikeBooklet: the disk cache (cache.py), the DEM elevation lookup        *)
(* (dem.py) and the map tile composition (gpxmap.py).                      *)
(*                                                                         *)
(* The cache directory holds the bytes of each file.  The code uses        *)
(* st_mtime only as a sort key, so the model keeps the files in the order  *)
(* of their st_mtime (least recently touched first); every touch or write  *)
(* gets a timestamp later than all the timestamps in the directory.        *)
(***************************************************************************)
EXTENDS Integers, Sequences, FiniteSets, TLC

\* ------------------------------------------------------------------------
\* config.py
\* ------------------------------------------------------------------------
CACHE_KEEP == {"usgs.dat"}

\* ------------------------------------------------------------------------
\* Bounded inputs
\* ------------------------------------------------------------------------
\* file names used by the callers of the cache
Names == {"usgs.dat", "A", "B", "C"}

\* byte strings handed to saveData: a 5-byte payload and a 1-byte payload
Payloads == { <<0, 255, 77, 16, 131>>, <<255>> }

\* values of self.maxSize (bytes) the constructor can produce
Budgets == {0, 10}

\* retain lists handed to the constructor
KeepLists == { CACHE_KEEP, CACHE_KEEP \cup {"A"} }

VARIABLES
  dir,        \* the cache directory: the files and their order by st_mtime
  maxSize,    \* CacheDir.maxSize, in bytes
  keep,       \* CacheDir.keep
  last,       \* the last call made on the cache and its outcome
  pc,         \* where the running procedure (getElevation, getMap) stands
  exc,        \* the exception that has left the running procedure
  pointList,  \* getElevation: the points, mutated in place
  net,        \* the remote fetch made by the last step, if any
  mapBBoxXY,  \* TileMap.mapBBoxXY: the tile rectangle, south-east excluded
  pos,        \* getMap: the loop indices i, j
  mapImg,     \* getMap: the canvas, its size and the tiles pasted on it
  request,    \* the request a session is about to send, and its redirections
  trk         \* processTracks: the track being enriched

NoFile == [exists |-> FALSE, data |-> <<>>]

\* no remote request
NoFetch == [url |-> "", kind |-> "none", content |-> <<>>]

\* no map under construction
NoBox == <<[x |-> 0, y |-> 0], [x |-> 0, y |-> 0]>>

NoImage == [size |-> <<0, 0>>, pasted |-> {}]

mapVars == <<mapBBoxXY, pos, mapImg>>

\* no request prepared
NoRequest == [hostname |-> "", headers |-> {}, history |-> <<>>]

\* a track without the summary fields that processTracks adds
NoSummary ==
  [num |-> 0, speed |-> 0, ascent |-> 0, descent |-> 0, distance |-> 0,
   time |-> <<0, 0>>, processed |-> FALSE]

\* no track handed to processTracks
NoTrack ==
  [state |-> "none", flatSpeed |-> 0, derived |-> <<>>, tp1 |-> 0,
   warnings |-> <<>>, summary |-> NoSummary]

otherVars == <<request, trk>>

\* the files of a directory d, and the position of f in the order of the
\* timestamps (1 = least recently touched, 0 = no such file)
Present(d) == {f \in DOMAIN d.file : d.file[f].exists}

RECURSIVE IndexOf(_, _, _)
IndexOf(s, f, i) ==
  IF i > Len(s) THEN 0 ELSE IF s[i] = f THEN i ELSE IndexOf(s, f, i + 1)

mtime(d, f) == IndexOf(d.byMtime, f, 1)

Remove(s, f) == SelectSeq(s, LAMBDA x : x # f)

\* ------------------------------------------------------------------------
\* base64 (RFC 4648 alphabet, as base64.b64encode / base64.b64decode)
\* ------------------------------------------------------------------------
PAD == 61

\* 6-bit value -> ASCII code of its base64 character
b64char(v) ==
  IF v < 26 THEN 65 + v
  ELSE IF v < 52 THEN 97 + (v - 26)
  ELSE IF v < 62 THEN 48 + (v - 52)
  ELSE IF v = 62 THEN 43
  ELSE 47

\* ASCII code -> 6-bit value, 64 for a byte outside the alphabet
b64value(c) ==
  IF c >= 65 /\ c <= 90 THEN c - 65
  ELSE IF c >= 97 /\ c <= 122 THEN c - 97 + 26
  ELSE IF c >= 48 /\ c <= 57 THEN c - 48 + 52
  ELSE IF c = 43 THEN 62
  ELSE IF c = 47 THEN 63
  ELSE 64

RECURSIVE b64encode(_)
b64encode(b) ==
  IF Len(b) = 0 THEN <<>>
  ELSE IF Len(b) = 1 THEN
    << b64char(b[1] \div 4), b64char((b[1] % 4) * 16), PAD, PAD >>
  ELSE IF Len(b) = 2 THEN
    << b64char(b[1] \div 4),
       b64char((b[1] % 4) * 16 + b[2] \div 16),
       b64char((b[2] % 16) * 4), PAD >>
  ELSE
    << b64char(b[1] \div 4),
       b64char((b[1] % 4) * 16 + b[2] \div 16),
       b64char((b[2] % 16) * 4 + b[3] \div 64),
       b64char(b[3] % 64) >> \o b64encode(SubSeq(b, 4, Len(b)))

\* binascii.a2b_base64 in its default (non strict) mode: bytes outside the
\* alphabet are skipped, a pad sequence that completes a quad ends the
\* parse, and a quad left open at the end of the input is an error.
RECURSIVE a2b(_, _, _, _, _, _)
a2b(s, i, quad_pos, leftchar, pads, out) ==
  IF i > Len(s) THEN
    IF quad_pos # 0 THEN [ok |-> FALSE, bytes |-> <<>>]
    ELSE [ok |-> TRUE, bytes |-> out]
  ELSE IF s[i] = PAD THEN
    IF quad_pos >= 2 /\ quad_pos + pads + 1 >= 4
    THEN [ok |-> TRUE, bytes |-> out]
    ELSE a2b(s, i + 1, quad_pos, leftchar,
             IF quad_pos >= 2 THEN pads + 1 ELSE pads, out)
  ELSE IF b64value(s[i]) >= 64 THEN
    a2b(s, i + 1, quad_pos, leftchar, pads, out)
  ELSE
    LET v == b64value(s[i]) IN
    IF quad_pos = 0 THEN a2b(s, i + 1, 1, v, 0, out)
    ELSE IF quad_pos = 1 THEN
      a2b(s, i + 1, 2, v % 16, 0, Append(out, leftchar * 4 + v \div 16))
    ELSE IF quad_pos = 2 THEN
      a2b(s, i + 1, 3, v % 4, 0, Append(out, leftchar * 16 + v \div 4))
    ELSE
      a2b(s, i + 1, 0, 0, 0, Append(out, leftchar * 64 + v))

b64decode(s) == a2b(s, 1, 0, 0, 0, <<>>)

\* ------------------------------------------------------------------------
\* cache.py : CacheDir
\* ------------------------------------------------------------------------
RECURSIVE SumSizes(_, _)
SumSizes(d, i) ==
  IF i > Len(d.byMtime) THEN 0
  ELSE Len(d.file[d.byMtime[i]].data) + SumSizes(d, i + 1)

\* sum(f.stat().st_size for f in self.path.glob('**/*') if f.is_file())
dirSize(d) == SumSizes(d, 1)

\* Path.touch() on an existing file: its st_mtime becomes the latest
touch(d, f) == [d EXCEPT !.byMtime = Append(Remove(@, f), f)]

\* open(path,'wb'); f.write(data)
write_Append(d, f, bytes) ==
  [file   |-> [d.file EXCEPT ![f] = [exists |-> TRUE, data |-> @.data \o bytes]],
   byMtime |-> Append(Remove(d.byMtime, f), f)]

write(d, f, bytes) ==
  [file   |-> [d.file EXCEPT ![f] = [exists |-> TRUE, data |-> bytes]],
   byMtime |-> Append(Remove(d.byMtime, f), f)]

\* Path.unlink()
unlink(d, f) ==
  [file   |-> [d.file EXCEPT ![f] = NoFile],
   byMtime |-> Remove(d.byMtime, f)]

Reverse(s) == [i \in 1..Len(s) |-> s[Len(s) + 1 - i]]

\* sorted([*self.path.iterdir()], key=lambda p: p.stat().st_mtime, reverse = True)
sortedFiles_Ascending(d) == d.byMtime

sortedFiles(d) == Reverse(d.byMtime)

\* cache.py line 68 formats the name `filename`, which clean() never binds
\* (no local, no module global, none imported from config): evaluating the
\* f-string raises NameError right after the unlink of line 67
FilenameBoundInClean == FALSE

\* line 63: while len(files) > 2 and dirSize > self.maxSize
loopGuard_NoFloor(files, size, max) == Len(files) > 0 /\ size > max

loopGuard(files, size, max) == Len(files) > 2 /\ size > max

\* line 65: if not str(f.name) in self.keep
retained_Never(f, kp) == FALSE

retained(f, kp) == f \in kp

\* the while loop of clean(): files is sorted most recent first, pop() takes
\* the least recently touched one
RECURSIVE cleanLoop(_, _, _, _, _, _)
cleanLoop(d, files, size, max, kp, popped) ==
  IF loopGuard(files, size, max) THEN
    LET f    == files[Len(files)]
        rest == SubSeq(files, 1, Len(files) - 1)
    IN IF ~retained(f, kp) THEN
         LET d2 == unlink(d, f) IN
         IF FilenameBoundInClean
         THEN cleanLoop(d2, rest, size - Len(d.file[f].data), max, kp,
                        Append(popped, f))
         ELSE [dir |-> d2, exc |-> "NameError", popped |-> Append(popped, f)]
       ELSE cleanLoop(d, rest, size, max, kp, Append(popped, f))
  ELSE [dir |-> d, exc |-> "none", popped |-> popped]

\* CacheDir.clean
clean(d, max, kp) == cleanLoop(d, sortedFiles(d), dirSize(d), max, kp, <<>>)

\* CacheDir.check
check_NoExistsTest(d, f) ==
  [dir |-> IF d.file[f].exists THEN touch(d, f) ELSE write(d, f, <<>>),
   kind |-> "path", path |-> f]

check(d, f) ==
  IF d.file[f].exists
  THEN [dir |-> touch(d, f), kind |-> "path", path |-> f]
  ELSE [dir |-> d, kind |-> "None", path |-> ""]

\* CacheDir.loadData
loadData(d, f, crypt) ==
  IF d.file[f].exists THEN
    LET raw == d.file[f].data
        dec == b64decode(raw)
    IN IF crypt /\ ~dec.ok
       THEN [dir |-> touch(d, f), kind |-> "raise", bytes |-> <<>>,
             exc |-> "binascii.Error"]
       ELSE [dir |-> touch(d, f), kind |-> "bytes",
             bytes |-> IF crypt THEN dec.bytes ELSE raw, exc |-> "none"]
  ELSE [dir |-> d, kind |-> "None", bytes |-> <<>>, exc |-> "none"]

\* CacheDir.saveData
saveData(d, f, bytes, crypt, max, kp) ==
  LET stored == IF crypt THEN b64encode(bytes) ELSE bytes
      c      == clean(write(d, f, stored), max, kp)
  IN IF c.exc = "none"
     THEN [dir |-> c.dir, kind |-> "path", path |-> f, exc |-> "none",
           popped |-> c.popped]
     ELSE [dir |-> c.dir, kind |-> "raise", path |-> "", exc |-> c.exc,
           popped |-> c.popped]

\* a call on the cache: the operation, its arguments, what it returned or
\* raised, and the files the eviction loop popped during the call
Call(op, f, arg, crypt, kind, path, bytes, ex, popped) ==
  [op |-> op, filename |-> f, arg |-> arg, crypt |-> crypt,
   kind |-> kind, path |-> path, bytes |-> bytes, exc |-> ex,
   popped |-> popped]

\* CacheDir.__init__ on a directory that does not exist yet
Init ==
  /\ dir = [file |-> [f \in Names |-> NoFile], byMtime |-> <<>>]
  /\ maxSize \in Budgets
  /\ keep \in KeepLists
  /\ last = Call("init", "", <<>>, FALSE, "None", "", <<>>, "none", <<>>)
  /\ pc = "cache"
  /\ exc = "none"
  /\ pointList = <<>>
  /\ net = NoFetch
  /\ mapBBoxXY = NoBox
  /\ pos = <<0, 0>>
  /\ mapImg = NoImage
  /\ request = NoRequest
  /\ trk = NoTrack

Check(f) ==
  LET r == check(dir, f) IN
  /\ dir' = r.dir
  /\ last' = Call("check", f, <<>>, FALSE, r.kind, r.path, <<>>, "none", <<>>)
  /\ UNCHANGED <<maxSize, keep, pc, exc, pointList, net, mapVars, otherVars>>

LoadData(f, crypt) ==
  LET r == loadData(dir, f, crypt) IN
  /\ dir' = r.dir
  /\ last' = Call("loadData", f, <<>>, crypt, r.kind, "", r.bytes, r.exc, <<>>)
  /\ UNCHANGED <<maxSize, keep, pc, exc, pointList, net, mapVars, otherVars>>

SaveData(f, bytes, crypt) ==
  LET r == saveData(dir, f, bytes, crypt, maxSize, keep) IN
  /\ dir' = r.dir
  /\ last' = Call("saveData", f, bytes, crypt, r.kind, r.path, <<>>, r.exc,
                  r.popped)
  /\ UNCHANGED <<maxSize, keep, pc, exc, pointList, net, mapVars, otherVars>>

Next ==
  \/ \E f \in Names : Check(f)
  \/ \E f \in Names, crypt \in BOOLEAN : LoadData(f, crypt)
  \/ \E f \in Names, b \in Payloads, crypt \in BOOLEAN : SaveData(f, b, crypt)

vars ==
  <<dir, maxSize, keep, last, pc, exc, pointList, net, mapVars, otherVars>>

Spec == Init /\ [][Next]_vars

\* ------------------------------------------------------------------------
\* dem.py : DEM
\*
\* Latitudes and longitudes are in quarter degrees (6 is 1.5 degrees),
\* elevations in millimetres (1 is the 0.001 m of the fallback).  A point
\* always has the key 'ele' (GPX.readDataElement sets 0 when the file gives
\* none), and the code takes any falsy value for "no elevation".
\* The archive of a tile is given by two sample values: the samples of its
\* .hgt grid alternate between them (equal values: a uniform tile).
\* ------------------------------------------------------------------------
MaxPoints == 2

DEM_RESOLUTION == 3601

URL_DEM(filename) ==
  "https://e4ftl01.cr.usgs.gov/MEASURES/SRTMGL1.003/2000.02.11/" \o filename

DEM_TILE_NAME(id) == id \o ".SRTMGL1.hgt.zip"

Min(a, b) == IF a < b THEN a ELSE b

Max(a, b) == IF a > b THEN a ELSE b

\* int(): truncation toward zero of a coordinate in quarter degrees
int(q) == IF q >= 0 THEN q \div 4 ELSE -((-q) \div 4)

RECURSIVE Zeros(_)
Zeros(n) == IF n <= 0 THEN "" ELSE "0" \o Zeros(n - 1)

Digits(n) == IF n < 10 THEN 1 ELSE IF n < 100 THEN 2 ELSE 3

\* '{:0wd}'.format(n): zero padded to the width w, sign included
fmt(n, w) ==
  IF n < 0 THEN "-" \o Zeros(w - 1 - Digits(-n)) \o ToString(-n)
  ELSE Zeros(w - Digits(n)) \o ToString(n)

\* '{}{:02d}{}{:03d}'.format('S' if tileLat < 0 else 'N', tileLat,
\*                           'W' if tileLon < 0 else 'E', tileLon)
tileId(tileLat, tileLon) ==
  (IF tileLat < 0 THEN "S" ELSE "N") \o fmt(tileLat, 2)
  \o (IF tileLon < 0 THEN "W" ELSE "E") \o fmt(tileLon, 3)

\* struct.unpack('>H', tile[pos:pos+2]) at column xx, row yy
sample(tile, xx, yy) == IF (xx + yy) % 2 = 0 THEN tile[1] ELSE tile[2]

\* round(): to the nearest integer, halves to the even one; n sixteenths
round16(n) ==
  LET q == n \div 16
      r == n % 16
  IN IF r < 8 THEN q
     ELSE IF r > 8 THEN q + 1
     ELSE IF q % 2 = 0 THEN q ELSE q + 1

\* lines 155-156: the position in the tile, in quarters of a sample, of a
\* coordinate given in 1/unit degree: x = (lon % 1) * R, y = (1 - lat % 1) * R - 1
tileX(lon, unit) == ((lon % unit) * DEM_RESOLUTION * 4) \div unit

tileY(lat, unit) == ((unit - (lat % unit)) * DEM_RESOLUTION * 4) \div unit - 4

\* the column without min(..., DEM_RESOLUTION - 1)
xx_NoClamp(x, i) == int(x) + i

\* xx = min(int(x) + i, DEM_RESOLUTION - 1), yy = max(int(y) - j, 0)
xx(x, i) == Min(int(x) + i, DEM_RESOLUTION - 1)

yy(y, j) == Max(int(y) - j, 0)

\* the factor of v[i][j] in lines 166-169, in sixteenths: i picks x % 1
\* against 1 - x % 1 in the second place, j in the first place
weight(x, y, i, j) ==
  (IF j = 0 THEN 4 - (x % 4) ELSE x % 4) * (IF i = 0 THEN 4 - (y % 4) ELSE y % 4)

\* lines 157-170 for a point given in 1/unit degree
interpolate(pt, tile, unit) ==
  LET x == tileX(pt.lon, unit)
      y == tileY(pt.lat, unit)
      v(i, j) == sample(tile, xx(x, i), yy(y, j))
      value == v(0, 0) * weight(x, y, 0, 0)
             + v(0, 1) * weight(x, y, 0, 1)
             + v(1, 0) * weight(x, y, 1, 0)
             + v(1, 1) * weight(x, y, 1, 1)
  IN 1000 * round16(value)

\* DEM.computePointElevation for the points of pointList, in quarter degrees
computePointElevation(pt, tile) == interpolate(pt, tile, 4)

\* the outcomes of s.get(url); r.raise_for_status().  The request sets no
\* timeout: a connection that cannot be made or times out in the network
\* stack raises requests.exceptions.ConnectionError.
TileContents == { <<0, 0>>, <<5, 6>> }

FetchOutcomes ==
  { [url |-> "", kind |-> "ok", content |-> c] : c \in TileContents }
  \cup { [url |-> "", kind |-> "HTTPError", content |-> <<>>],
         [url |-> "", kind |-> "ConnectionError", content |-> <<>>] }

\* the except clause of getTile: requests.exceptions.HTTPError only
caught_AnyRequestException(kind) == kind \in {"HTTPError", "ConnectionError"}

caught(kind) == kind = "HTTPError"

\* getTile without the `if not tilePath` test: it downloads on a hit too
getTile_AlwaysDownloads(d, filename, outcome, max, kp) ==
  LET c == check(d, filename) IN
  IF outcome.kind = "none"
  THEN [dir |-> c.dir, tilePath |-> c.path, exc |-> "none", fetched |-> FALSE]
  ELSE IF outcome.kind = "ok" THEN
    LET st == saveData(c.dir, filename, outcome.content, FALSE, max, kp)
    IN [dir |-> st.dir, tilePath |-> st.path, exc |-> st.exc, fetched |-> TRUE]
  ELSE IF caught(outcome.kind)
  THEN [dir |-> c.dir, tilePath |-> "", exc |-> "none", fetched |-> TRUE]
  ELSE [dir |-> c.dir, tilePath |-> "", exc |-> outcome.kind, fetched |-> TRUE]

\* DEM.getTile; tilePath "" stands for None
getTile(d, filename, outcome, max, kp) ==
  LET c == check(d, filename) IN
  IF c.kind = "path"
  THEN [dir |-> c.dir, tilePath |-> c.path, exc |-> "none", fetched |-> FALSE]
  ELSE IF outcome.kind = "ok" THEN
    LET st == saveData(c.dir, filename, outcome.content, FALSE, max, kp)
    IN [dir |-> st.dir, tilePath |-> st.path, exc |-> st.exc, fetched |-> TRUE]
  ELSE IF caught(outcome.kind)
  THEN [dir |-> c.dir, tilePath |-> "", exc |-> "none", fetched |-> TRUE]
  ELSE [dir |-> c.dir, tilePath |-> "", exc |-> outcome.kind, fetched |-> TRUE]

\* not 'ele' in p or not p['ele']
lacksEle(p) == p.ele = 0

\* [0 if not 'b' in p or not p['b'] else 1 for p in pointList].count(0):
\* no point has a key 'b', so every point counts
Npt(pl) == Len(SelectSeq(pl, LAMBDA p : TRUE))

\* the first point with no elevation, 0 if there is none
firstLacking(pl) ==
  IF \E i \in DOMAIN pl : lacksEle(pl[i])
  THEN CHOOSE i \in DOMAIN pl :
         lacksEle(pl[i]) /\ \A j \in 1..(i - 1) : ~lacksEle(pl[j])
  ELSE 0

inTile(pt, tileLat, tileLon) == int(pt.lat) = tileLat /\ int(pt.lon) = tileLon

\* lines 129-137: every point of the tile gets the interpolated elevation
assignFromTile(pl, tile, tileLat, tileLon) ==
  [k \in DOMAIN pl |->
     IF inTile(pl[k], tileLat, tileLon)
     THEN [pl[k] EXCEPT !.ele = computePointElevation(pl[k], tile)]
     ELSE pl[k]]

RECURSIVE fallback(_, _, _, _, _)

\* the fallback without `else: lastValue = pt['ele']`
fallback_FirstValueOnly(pl, k, lastValue, tileLat, tileLon) ==
  [j \in DOMAIN pl |->
     IF lacksEle(pl[j]) /\ inTile(pl[j], tileLat, tileLon)
     THEN [pl[j] EXCEPT !.ele = lastValue]
     ELSE pl[j]]

\* lines 139-147: no tile, so the last elevation seen, or 0.001
fallback(pl, k, lastValue, tileLat, tileLon) ==
  IF k > Len(pl) THEN pl
  ELSE IF lacksEle(pl[k]) THEN
    IF inTile(pl[k], tileLat, tileLon)
    THEN fallback([pl EXCEPT ![k].ele = lastValue], k + 1, lastValue,
                  tileLat, tileLon)
    ELSE fallback(pl, k + 1, lastValue, tileLat, tileLon)
  ELSE fallback(pl, k + 1, pl[k].ele, tileLat, tileLon)

\* the track points of the input: (1.5, 2.25) and (1.75, 2.5) in one cell,
\* (0.5, 2.25), (-1.5, -0.25) and (-1.5, 0.25) on the two sides of the
\* meridian, (3.25, 2.0); without elevation or at 7 m
Coords == { <<6, 9>>, <<7, 10>>, <<2, 9>>, <<-6, -1>>, <<-6, 1>>, <<13, 8>> }

Points == { [lat |-> c[1], lon |-> c[2], ele |-> e] : c \in Coords, e \in {0, 7000} }

PointLists == UNION { [1..n -> Points] : n \in 0..MaxPoints }

TileFiles ==
  { DEM_TILE_NAME(tileId(int(c[1]), int(c[2]))) : c \in Coords }

DemNames == {"usgs.dat"} \cup TileFiles

\* the cache directory a run can find: empty, or left by earlier runs
emptyDir(names) == [file |-> [f \in names |-> NoFile], byMtime |-> <<>>]

DemCaches ==
  { emptyDir(DemNames),
    write(write(emptyDir(DemNames), "usgs.dat", b64encode(<<117, 58, 112>>)),
          "N01E002.SRTMGL1.hgt.zip", <<5, 6>>),
    write(write(emptyDir(DemNames), "N01E002.SRTMGL1.hgt.zip", <<0, 0>>),
          "N03E002.SRTMGL1.hgt.zip", <<5, 6>>) }

InitDEM ==
  /\ dir \in DemCaches
  /\ maxSize \in Budgets
  /\ keep = CACHE_KEEP
  /\ last = Call("init", "", <<>>, FALSE, "None", "", <<>>, "none", <<>>)
  /\ pc = "idle"
  /\ exc = "none"
  /\ pointList = <<>>
  /\ net = NoFetch
  /\ mapBBoxXY = NoBox
  /\ pos = <<0, 0>>
  /\ mapImg = NoImage
  /\ request = NoRequest
  /\ trk = NoTrack

\* DEM.getElevation, up to the loop (lines 103-109)
GetElevation(pl) ==
  /\ pc = "idle"
  /\ pointList' = pl
  /\ pc' = IF Npt(pl) = 0 THEN "returned" ELSE "loop"
  /\ UNCHANGED <<dir, maxSize, keep, last, exc, net, mapVars, otherVars>>

\* one pass of the `while True` loop of getElevation (lines 111-147)
LoopPass(outcome) ==
  /\ pc = "loop"
  /\ LET i == firstLacking(pointList) IN
     IF i = 0 \/ int(pointList[i].lat) = 0 THEN
       \* `if not tileLat: break`
       /\ outcome = NoFetch
       /\ pc' = "returned"
       /\ net' = NoFetch
       /\ UNCHANGED <<dir, exc, pointList>>
     ELSE
       LET tileLat      == int(pointList[i].lat)
           tileLon      == int(pointList[i].lon)
           tileFilename == DEM_TILE_NAME(tileId(tileLat, tileLon))
           t == getTile(dir, tileFilename, outcome, maxSize, keep)
       IN /\ t.fetched <=> outcome # NoFetch
          /\ dir' = t.dir
          /\ net' = [outcome EXCEPT !.url =
                       IF t.fetched THEN URL_DEM(tileFilename) ELSE ""]
          /\ IF t.exc # "none" THEN
               /\ pc' = "raised"
               /\ exc' = t.exc
               /\ UNCHANGED pointList
             ELSE
               /\ pc' = "loop"
               /\ exc' = exc
               /\ pointList' =
                    IF t.tilePath # ""
                    THEN assignFromTile(pointList, t.dir.file[tileFilename].data,
                                        tileLat, tileLon)
                    ELSE fallback(pointList, 1, 1, tileLat, tileLon)
  /\ UNCHANGED <<maxSize, keep, last, mapVars, otherVars>>

NextDEM ==
  \/ \E pl \in PointLists : GetElevation(pl)
  \/ \E outcome \in FetchOutcomes \cup {NoFetch} : LoopPass(outcome)

SpecDEM == InitDEM /\ [][NextDEM]_vars

\* ------------------------------------------------------------------------
\* gpxmap.py : TileMap.getMap
\*
\* A tile image is given by one byte; the tile service returns 256 x 256
\* images.  The canvas records its size and, for every paste, the pixel
\* offset and the image pasted there; a position with no paste is blank.
\* ------------------------------------------------------------------------
MaxGrid == 2

\* self.zoom, fixed when the map is built
zoom == 12

URL_MAP(z, x, y) ==
  "https://tile.opentopomap.org/" \o ToString(z) \o "/" \o ToString(x)
  \o "/" \o ToString(y) \o ".png"

\* f'OTM-{self.zoom}-{x}-{y}.png'
tileCacheFilename(x, y) ==
  "OTM-" \o ToString(zoom) \o "-" \o ToString(x) \o "-" \o ToString(y) \o ".png"

\* imgTile.size of a decoded tile
imgSize(tile) == <<256, 256>>

\* r.content of a 200 answer: the bytes of an image, or no byte at all
MapTileContents == { <<1>>, <<2>>, <<>> }

\* Image.open(io.BytesIO(tile)) raises UnidentifiedImageError on no bytes
identified(tile) == tile # <<>>

MapOutcomes ==
  { [url |-> "", kind |-> "ok", content |-> c] : c \in MapTileContents }
  \cup { [url |-> "", kind |-> "HTTPError", content |-> <<>>],
         [url |-> "", kind |-> "ConnectionError", content |-> <<>>] }

\* the tile rectangles: north-west tile (2100, 1400), 1 to MaxGrid tiles a side
MapBoxes ==
  { <<[x |-> 2100, y |-> 1400], [x |-> 2100 + dx, y |-> 1400 + dy]>> :
      dx \in 1..MaxGrid, dy \in 1..MaxGrid }

MapNames ==
  {"usgs.dat"} \cup
  { tileCacheFilename(2100 + i, 1400 + j) : i \in 0..MaxGrid, j \in 0..MaxGrid }

MapCaches ==
  { emptyDir(MapNames),
    write(write(emptyDir(MapNames), "usgs.dat", b64encode(<<117, 58, 112>>)),
          tileCacheFilename(2100, 1400), <<1>>),
    write(write(emptyDir(MapNames), tileCacheFilename(2100, 1401), <<2>>),
          tileCacheFilename(2100, 1400), <<1>>) }

dxOf(box) == box[2].x - box[1].x

dyOf(box) == box[2].y - box[1].y

InitMap ==
  /\ dir \in MapCaches
  /\ maxSize \in Budgets
  /\ keep = CACHE_KEEP
  /\ last = Call("init", "", <<>>, FALSE, "None", "", <<>>, "none", <<>>)
  /\ pc = "idle"
  /\ exc = "none"
  /\ pointList = <<>>
  /\ net = NoFetch
  /\ mapBBoxXY \in MapBoxes
  /\ pos = <<0, 0>>
  /\ mapImg = NoImage
  /\ request = NoRequest
  /\ trk = NoTrack

\* getMap up to the loops: mapImg = Image.new('RGB', (dx*256, dy*256))
GetMap ==
  /\ pc = "idle"
  /\ mapImg' = [size |-> <<dxOf(mapBBoxXY) * 256, dyOf(mapBBoxXY) * 256>>,
                pasted |-> {}]
  /\ pos' = <<0, 0>>
  /\ pc' = "tiles"
  /\ UNCHANGED <<dir, maxSize, keep, last, exc, pointList, net, mapBBoxXY,
               otherVars>>

\* the loop indices after (i, j): j runs inside i
nextPos(i, j, box) == IF j + 1 < dyOf(box) THEN <<i, j + 1>> ELSE <<i + 1, 0>>

\* mapImg.paste(imgTile, (i*imgTile.size[0], j*imgTile.size[1]))
paste(img, tile, i, j) ==
  [img EXCEPT !.pasted = @ \cup
     { [at |-> <<i * imgSize(tile)[1], j * imgSize(tile)[2]>>, img |-> tile] }]

\* one pass of the inner loop of getMap (lines 152-176), or the return
MapTile(outcome) ==
  /\ pc = "tiles"
  /\ LET i == pos[1]
         j == pos[2]
     IN
     IF i >= dxOf(mapBBoxXY) THEN
       /\ outcome = NoFetch
       /\ pc' = "returned"
       /\ net' = NoFetch
       /\ UNCHANGED <<dir, exc, pos, mapImg>>
     ELSE
       LET x    == mapBBoxXY[1].x + i
           y    == mapBBoxXY[1].y + j
           name == tileCacheFilename(x, y)
           ld   == loadData(dir, name, FALSE)
           hit  == ld.kind = "bytes" /\ ld.bytes # <<>>
       IN
       IF hit THEN
         /\ outcome = NoFetch
         /\ dir' = ld.dir
         /\ net' = NoFetch
         /\ mapImg' = paste(mapImg, ld.bytes, i, j)
         /\ pos' = nextPos(i, j, mapBBoxXY)
         /\ UNCHANGED <<pc, exc>>
       ELSE
         /\ outcome # NoFetch
         /\ net' = [outcome EXCEPT !.url = URL_MAP(zoom, x, y)]
         /\ IF outcome.kind = "ok" THEN
              LET st == saveData(ld.dir, name, outcome.content, FALSE,
                                 maxSize, keep)
              IN /\ dir' = st.dir
                 /\ IF st.exc # "none"
                    THEN /\ pc' = "raised"
                         /\ exc' = st.exc
                         /\ UNCHANGED <<pos, mapImg>>
                    ELSE IF ~identified(outcome.content)
                    THEN /\ pc' = "raised"
                         /\ exc' = "UnidentifiedImageError"
                         /\ UNCHANGED <<pos, mapImg>>
                    ELSE /\ mapImg' = paste(mapImg, outcome.content, i, j)
                         /\ pos' = nextPos(i, j, mapBBoxXY)
                         /\ UNCHANGED <<pc, exc>>
            ELSE IF caught(outcome.kind) THEN
              \* logged; continue
              /\ dir' = ld.dir
              /\ pos' = nextPos(i, j, mapBBoxXY)
              /\ UNCHANGED <<pc, exc, mapImg>>
            ELSE
              /\ dir' = ld.dir
              /\ pc' = "raised"
              /\ exc' = outcome.kind
              /\ UNCHANGED <<pos, mapImg>>
  /\ UNCHANGED <<maxSize, keep, last, pointList, mapBBoxXY,
               otherVars>>

NextMap ==
  \/ GetMap
  \/ \E outcome \in MapOutcomes \cup {NoFetch} : MapTile(outcome)

SpecMap == InitMap /\ [][NextMap]_vars

\* ---------------------------------------------------------------------------
\* both tile readers over one cache directory, as main.py builds them: the
\* Cache object of main.py line 43 is handed to the DEM and to every TileMap
\* ---------------------------------------------------------------------------

TileNames == DemNames \cup MapNames

\* caches left by earlier runs; the last holds a map tile of no bytes, which
\* a run leaves behind when a 200 answer had an empty body (saveData stored
\* it, Image.open then raised)
TileCaches ==
  { emptyDir(TileNames),
    write(write(write(emptyDir(TileNames), "usgs.dat",
                      b64encode(<<117, 58, 112>>)),
                "N01E002.SRTMGL1.hgt.zip", <<5, 6>>),
          tileCacheFilename(2100, 1400), <<1>>),
    write(write(emptyDir(TileNames), "N01E002.SRTMGL1.hgt.zip", <<0, 0>>),
          tileCacheFilename(2100, 1400), <<>>) }

InitTiles ==
  /\ dir \in TileCaches
  /\ maxSize \in Budgets
  /\ keep = CACHE_KEEP
  /\ last = Call("init", "", <<>>, FALSE, "None", "", <<>>, "none", <<>>)
  /\ pc = "idle"
  /\ exc = "none"
  /\ pointList = <<>>
  /\ net = NoFetch
  /\ mapBBoxXY \in MapBoxes
  /\ pos = <<0, 0>>
  /\ mapImg = NoImage
  /\ request = NoRequest
  /\ trk = NoTrack

NextTiles == NextDEM \/ NextMap

SpecTiles == InitTiles /\ [][NextTiles]_vars

\* ---------------------------------------------------------------------------
\* dem.py : SessionWithHeaderRedirection
\* ---------------------------------------------------------------------------

\* bound on the redirections followed for one request (requests stops at 30)
MaxRedirects == 3

AUTH_HOST == "urs.earthdata.nasa.gov"

\* the host of URL_DEM
DEM_HOST == "e4ftl01.cr.usgs.gov"

\* urlparse(url).hostname of the URLs a server may redirect to
Hosts == { AUTH_HOST, DEM_HOST, "data.lpdaac.earthdatacloud.nasa.gov",
           "example.org" }

\* rebuild_auth that keeps the header only on a redirection to the
\* authentication host
rebuild_auth_TargetOnly(headers, original, redirect) ==
  IF "Authorization" \in headers
  THEN IF original # redirect /\ redirect # AUTH_HOST
       THEN headers \ {"Authorization"}
       ELSE headers
  ELSE headers

\* rebuild_auth: the headers of the prepared request after the call;
\* original is the host of response.request.url, redirect the host of
\* prepared_request.url
rebuild_auth(headers, original, redirect) ==
  IF "Authorization" \in headers
  THEN IF /\ original # redirect
          /\ redirect # AUTH_HOST
          /\ original # AUTH_HOST
       THEN headers \ {"Authorization"}
       ELSE headers
  ELSE headers

\* self.auth: a (username, password) pair, or None when usgs.dat is missing
Auths == { "u:p", "None" }

InitAuth ==
  /\ dir = emptyDir(DemNames)
  /\ maxSize \in Budgets
  /\ keep = CACHE_KEEP
  /\ last = Call("init", "", <<>>, FALSE, "None", "", <<>>, "none", <<>>)
  /\ pc = "session"
  /\ exc = "none"
  /\ pointList = <<>>
  /\ net = NoFetch
  /\ mapBBoxXY = NoBox
  /\ pos = <<0, 0>>
  /\ mapImg = NoImage
  /\ request = NoRequest
  /\ trk = NoTrack

\* s.get(url) of getTile: the session prepares the request; with credentials
\* it carries an Authorization header
Get(auth) ==
  /\ pc = "session"
  /\ request = NoRequest
  /\ request' = [hostname |-> DEM_HOST,
                 headers  |-> IF auth = "None" THEN {"User-Agent"}
                              ELSE {"User-Agent", "Authorization"},
                 history  |-> <<>>]
  /\ UNCHANGED <<dir, maxSize, keep, last, pc, exc, pointList, net, mapVars,
                 trk>>

\* the answer is a redirection to host h: requests copies the request it has
\* just sent, points the copy at the new URL and calls rebuild_auth on it
Redirect(h) ==
  /\ pc = "session"
  /\ request # NoRequest
  /\ Len(request.history) < MaxRedirects
  /\ request' = [hostname |-> h,
                 headers  |-> rebuild_auth(request.headers,
                                           request.hostname, h),
                 history  |-> Append(request.history, request.hostname)]
  /\ UNCHANGED <<dir, maxSize, keep, last, pc, exc, pointList, net, mapVars,
                 trk>>

NextAuth ==
  \/ \E auth \in Auths : Get(auth)
  \/ \E h \in Hosts : Redirect(h)

SpecAuth == InitAuth /\ [][NextAuth]_vars

\* ---------------------------------------------------------------------------
\* gpx.py : GPX.processTracks
\* distances are in millimetres, times in 10^-7 hour, flat speeds in tenths
\* of a kilometre per hour
\* ---------------------------------------------------------------------------

abs(x) == IF x < 0 THEN 0 - x ELSE x

\* the values of self.flatSpeed: FLAT_SPEED of config.py, and 6 km/h
FlatSpeeds == { 45, 60 }

\* computeDistance(tp0, tp1, earthRadius) of two consecutive points: the same
\* place, one metre apart, five kilometres apart.  The haversine formula works
\* on coordinates finer than the quarter degrees kept in pointList, so the
\* distance of a pair is drawn here; it is never negative.
Distances == { 0, 1000, 5000000 }

\* distance / speed of computeHikingTime for speed = 6*exp(-3.5*|slope/distance
\* + 0.05|), tabulated from the function itself on the pairs that the loop of
\* processTracks can hand it (|slope| <= 1.2 * distance)
Tobler(distance, slope) ==
  CASE distance = 1000 /\ slope = -1000 -> 46332
    [] distance = 1000 /\ slope = -1 -> 1978
    [] distance = 1000 /\ slope = 0 -> 1985
    [] distance = 1000 /\ slope = 1 -> 1992
    [] distance = 1000 /\ slope = 1000 -> 65748
    [] distance = 5000000 /\ slope = -7000 -> 9878528
    [] distance = 5000000 /\ slope = -6999 -> 9878535
    [] distance = 5000000 /\ slope = -6000 -> 9885446
    [] distance = 5000000 /\ slope = -5999 -> 9885453
    [] distance = 5000000 /\ slope = -5000 -> 9892368
    [] distance = 5000000 /\ slope = -4999 -> 9892375
    [] distance = 5000000 /\ slope = -2000 -> 9913164
    [] distance = 5000000 /\ slope = -1000 -> 9920105
    [] distance = 5000000 /\ slope = -1 -> 9927045
    [] distance = 5000000 /\ slope = 0 -> 9927052
    [] distance = 5000000 /\ slope = 1 -> 9927059
    [] distance = 5000000 /\ slope = 1000 -> 9934003
    [] distance = 5000000 /\ slope = 2000 -> 9940959
    [] distance = 5000000 /\ slope = 4999 -> 9961850
    [] distance = 5000000 /\ slope = 5000 -> 9961857
    [] distance = 5000000 /\ slope = 5999 -> 9968826
    [] distance = 5000000 /\ slope = 6000 -> 9968833
    [] distance = 5000000 /\ slope = 6999 -> 9975807
    [] distance = 5000000 /\ slope = 7000 -> 9975814

\* computeHikingTime(distance, slope, flatSpeed): hours = distance/speed/ratio
\* with ratio = flatSpeed/5
computeHikingTime(distance, slope, flatSpeed) ==
  IF abs(distance) < 1 THEN 0
  ELSE (Tobler(distance, slope) * 50) \div flatSpeed

\* the threshold that lets two points at the same place differ in elevation
thresholded_NotAtZeroDistance(s, d) == d > 0 /\ 10 * abs(s) > 12 * d

\* abs(s) > 1.2 * d
thresholded(s, d) == 10 * abs(s) > 12 * d

\* the body of the loop on trk['trackPoints'][1:] with the descent kept as a
\* positive total
loopBody_PositiveDescent(tp0, ele0, ele1, d, flatSpeed) ==
  LET clamp == thresholded(ele1 - ele0, d)
      s     == IF clamp THEN 0 ELSE ele1 - ele0
  IN [ele     |-> IF clamp THEN ele0 ELSE ele1,
      warned  |-> clamp,
      dist    |-> tp0.dist + d,
      ascent  |-> IF s > 0 THEN tp0.ascent + s ELSE tp0.ascent,
      descent |-> IF s > 0 THEN tp0.descent ELSE tp0.descent - s,
      time    |-> tp0.time + computeHikingTime(d, s, flatSpeed)]

\* the body of the loop on trk['trackPoints'][1:] (lines 176-193): tp0 holds
\* the derived fields of the previous point, ele0 its elevation, ele1 the
\* elevation of tp1; the result holds the fields of tp1 after the pass
loopBody(tp0, ele0, ele1, d, flatSpeed) ==
  LET clamp == thresholded(ele1 - ele0, d)
      s     == IF clamp THEN 0 ELSE ele1 - ele0
  IN [ele     |-> IF clamp THEN ele0 ELSE ele1,
      warned  |-> clamp,
      dist    |-> tp0.dist + d,
      ascent  |-> IF s > 0 THEN tp0.ascent + s ELSE tp0.ascent,
      descent |-> IF s > 0 THEN tp0.descent ELSE tp0.descent + s,
      time    |-> tp0.time + computeHikingTime(d, s, flatSpeed)]

\* str(datetime.timedelta(hours=int(h), minutes=int((h % 1)*60))), as the
\* pair (hours, minutes)
timedelta(h) == << h \div 10000000, ((h % 10000000) * 60) \div 10000000 >>

InitTrack ==
  /\ dir \in DemCaches
  /\ maxSize \in Budgets
  /\ keep = CACHE_KEEP
  /\ last = Call("init", "", <<>>, FALSE, "None", "", <<>>, "none", <<>>)
  /\ pc = "idle"
  /\ exc = "none"
  /\ pointList = <<>>
  /\ net = NoFetch
  /\ mapBBoxXY = NoBox
  /\ pos = <<0, 0>>
  /\ mapImg = NoImage
  /\ request = NoRequest
  /\ trk = NoTrack

\* processTracks(trackNum) up to the call self.dem.getElevation(...) included
ProcessTracks(pl, flatSpeed) ==
  /\ pc = "idle"
  /\ trk = NoTrack
  /\ trk' = [NoTrack EXCEPT !.state = "getElevation", !.flatSpeed = flatSpeed]
  /\ pointList' = pl
  /\ pc' = IF Npt(pl) = 0 THEN "returned" ELSE "loop"
  /\ UNCHANGED <<dir, maxSize, keep, last, exc, net, mapVars, request>>

\* lines 169-174: getElevation has returned; tp0 = trk['trackPoints'][0]
FirstPoint ==
  /\ pc = "returned"
  /\ trk.state = "getElevation"
  /\ IF pointList = <<>>
     THEN /\ trk' = [trk EXCEPT !.state = "raised"]
          /\ exc' = "IndexError"
     ELSE /\ trk' = [trk EXCEPT !.state = "pairs",
                                !.derived = << [dist |-> 0, time |-> 0,
                                                ascent |-> 0, descent |-> 0] >>]
          /\ exc' = exc
  /\ UNCHANGED <<dir, maxSize, keep, last, pc, pointList, net, mapVars,
                 request>>

\* one pass of `for tp1 in trk['trackPoints'][1:]`
Pair(d) ==
  /\ trk.state = "pairs"
  /\ Len(trk.derived) < Len(pointList)
  /\ LET k  == Len(trk.derived) + 1
         r  == loopBody(trk.derived[k - 1], pointList[k - 1].ele,
                        pointList[k].ele, d, trk.flatSpeed)
         s  == pointList[k].ele - pointList[k - 1].ele
     IN /\ pointList' = [pointList EXCEPT ![k].ele = r.ele]
        /\ trk' = [trk EXCEPT
                     !.derived = Append(@, [dist |-> r.dist, time |-> r.time,
                                            ascent |-> r.ascent,
                                            descent |-> r.descent]),
                     !.tp1 = k,
                     \* logger.warning(f'computed slope ({s}) thresholded ...')
                     !.warnings = IF r.warned THEN Append(@, s) ELSE @]
  /\ UNCHANGED <<dir, maxSize, keep, last, pc, exc, net, mapVars, request>>

\* lines 194-204: the summary, read from tp1; tp1 is bound by the loop only
Summary ==
  /\ trk.state = "pairs"
  /\ Len(trk.derived) = Len(pointList)
  /\ IF trk.tp1 = 0
     THEN /\ trk' = [trk EXCEPT !.state = "raised",
                                !.summary = [NoSummary EXCEPT
                                               !.num = 1,
                                               !.speed = trk.flatSpeed]]
          /\ exc' = "UnboundLocalError"
     ELSE /\ trk' = [trk EXCEPT
                       !.state = "processed",
                       !.summary =
                         [num       |-> 1,
                          speed     |-> trk.flatSpeed,
                          ascent    |-> trk.derived[trk.tp1].ascent,
                          descent   |-> trk.derived[trk.tp1].descent,
                          distance  |-> trk.derived[trk.tp1].dist,
                          time      |-> timedelta(trk.derived[trk.tp1].time
                                                  - trk.derived[1].time),
                          processed |-> TRUE]]
          /\ exc' = exc
  /\ UNCHANGED <<dir, maxSize, keep, last, pc, pointList, net, mapVars,
                 request>>

NextTrack ==
  \/ \E pl \in PointLists, flatSpeed \in FlatSpeeds : ProcessTracks(pl, flatSpeed)
  \/ \E outcome \in FetchOutcomes \cup {NoFetch} : LoopPass(outcome)
  \/ FirstPoint
  \/ \E d \in Distances : Pair(d)
  \/ Summary

SpecTrack == InitTrack /\ [][NextTrack]_vars

\* ---------------------------------------------------------------------------
\* dem.py : DEM.computePointElevation on its own, on coordinates fine enough
\* to reach the edges of a tile: 1/(4 * DEM_RESOLUTION) degree, a quarter of
\* a sample
\* ---------------------------------------------------------------------------

FineUnit == 4 * DEM_RESOLUTION

\* latitudes and longitudes: both sides of 0 and of one degree, the first
\* and last quarters of a sample, mid tile, below -1 degree
FineCoords ==
  { 0 - FineUnit - 1, 0 - FineUnit, 0 - 5, 0 - 1, 0, 1, 2, 4, 7202,
    FineUnit - 4, FineUnit - 1, FineUnit }

FinePoints == { [lat |-> a, lon |-> o, ele |-> 0] : a \in FineCoords,
                                                     o \in FineCoords }

\* the value k of the samples of a uniform tile: big-endian uint16
UniformSamples == { 0, 5, 65535 }

InitInterp ==
  /\ \E k \in UniformSamples :
       dir = write(emptyDir(DemNames), "N01E002.SRTMGL1.hgt.zip", <<k, k>>)
  /\ maxSize \in Budgets
  /\ keep = CACHE_KEEP
  /\ last = Call("init", "", <<>>, FALSE, "None", "", <<>>, "none", <<>>)
  /\ pc = "interpolate"
  /\ exc = "none"
  /\ pointList = <<>>
  /\ net = NoFetch
  /\ mapBBoxXY = NoBox
  /\ pos = <<0, 0>>
  /\ mapImg = NoImage
  /\ request = NoRequest
  /\ trk = NoTrack

\* pt['ele'] = self.computePointElevation(pt, tile) on the tile of the cache
ComputePointElevation(pt) ==
  /\ pc = "interpolate"
  /\ pointList = <<>>
  /\ pointList' =
       << [pt EXCEPT !.ele =
             interpolate(pt, dir.file["N01E002.SRTMGL1.hgt.zip"].data,
                         FineUnit)] >>
  /\ UNCHANGED <<dir, maxSize, keep, last, pc, exc, net, mapVars, otherVars>>

NextInterp == \E pt \in FinePoints : ComputePointElevation(pt)

SpecInterp == InitInterp /\ [][NextInterp]_vars

TypeOK ==
  /\ \A f \in Names : dir.file[f].exists \in BOOLEAN
  /\ Len(dir.byMtime) = Cardinality(Present(dir))
  /\ \A f \in Present(dir) : mtime(dir, f) \in 1..Len(dir.byMtime)

\* ------------------------------------------------------------------------
\* Properties of the cache
\* ------------------------------------------------------------------------
\* the entries of d beyond the two most recently accessed ones
Surplus(d) == {d.byMtime[i] : i \in 1..(Len(d.byMtime) - 2)}

\* the entries a step deleted
Deleted == Present(dir) \ Present(dir')

\* the size invariant of the cache
WithinBudget(d) ==
  \/ dirSize(d) <= maxSize
  \/ Cardinality(Present(d)) <= 2
  \/ Surplus(d) \subseteq keep

\* C1: at the moment a store has ended, the directory's total size is at
\* most maxSize, or it holds at most 2 entries, or every entry beyond the
\* two most recently accessed is in the retain list.
C1_SizeInvariantAfterStore ==
  last.op = "saveData" => WithinBudget(dir)

\* C2: no step deletes an entry whose name is in the retain list, and the
\* size of the retained entries counts in the total: a store that ends
\* without a deletion leaves the whole directory, retained entries
\* included, within the size invariant.
C2_RetainedArePermanent ==
  [][ /\ \A f \in keep : dir.file[f].exists => dir'.file[f].exists
      /\ (last'.op = "saveData" /\ Deleted = {}) => WithinBudget(dir') ]_vars

\* an eviction pass has popped a retained entry, left it in place and
\* deleted a more recently accessed entry instead
C2_Witness ==
  /\ last.op = "saveData"
  /\ last.exc = "NameError"
  /\ \E i \in 1..Len(last.popped) :
       /\ last.popped[i] \in keep
       /\ dir.file[last.popped[i]].exists
       /\ i < Len(last.popped)
       /\ ~dir.file[last.popped[Len(last.popped)]].exists

\* C3: eviction is least recently used: when a store deletes an entry, every
\* non-retained entry that survives was accessed no earlier than the deleted
\* one (the entry just written is the latest).  With maxSize = 10 and the
\* 5-byte entries A then B present, none retained, storing 5 bytes under C
\* deletes exactly A and leaves B and C.
C3_EvictionIsLRU ==
  [][ /\ last'.op = "saveData" =>
           \A f \in Deleted : \A g \in Present(dir') \ keep :
              \/ g = last'.filename
              \/ mtime(dir, g) >= mtime(dir, f)
      /\ ( /\ maxSize = 10
           /\ keep \cap {"A", "B", "C"} = {}
           /\ dir.byMtime = <<"A", "B">>
           /\ Len(dir.file["A"].data) = 5
           /\ Len(dir.file["B"].data) = 5
           /\ last'.op = "saveData"
           /\ last'.filename = "C"
           /\ ~last'.crypt
           /\ Len(last'.arg) = 5 )
         => dir'.byMtime = <<"B", "C">> ]_vars

\* the scenario has run: C was stored last, A is gone, B and C hold 5 bytes
C3_Witness ==
  /\ maxSize = 10
  /\ keep \cap {"A", "B", "C"} = {}
  /\ last.op = "saveData"
  /\ last.filename = "C"
  /\ last.popped = <<"A">>
  /\ dir.byMtime = <<"B", "C">>
  /\ Len(dir.file["B"].data) = 5
  /\ Len(dir.file["C"].data) = 5

\* C4: a store never deletes the entry it has just written nor the most
\* recently accessed other entry, and a directory that held n entries when
\* the eviction pass started holds at least min(n, 2) when the store ends.
C4_TwoMostRecentSurvive ==
  [][ last'.op = "saveData" =>
        LET f      == last'.filename
            others == Remove(dir.byMtime, f)
            n      == Len(others) + 1
        IN /\ dir'.file[f].exists
           /\ dir'.byMtime[Len(dir'.byMtime)] = f
           /\ others # <<>> => dir'.file[others[Len(others)]].exists
           /\ Cardinality(Present(dir')) >= Min(n, 2) ]_vars

\* a store under a budget of 0 bytes has deleted an entry and ends with
\* exactly two entries left
C4_Witness ==
  /\ maxSize = 0
  /\ last.op = "saveData"
  /\ last.popped # <<>>
  /\ ~dir.file[last.popped[Len(last.popped)]].exists
  /\ Len(dir.byMtime) = 2
  /\ dir.file[last.filename].exists

\* C5: every store returns normally, with the path of the entry it wrote.
C5_StoreReturnsPath ==
  last.op = "saveData" =>
     last.kind = "path" /\ last.path = last.filename /\ last.exc = "none"

\* the base64 text of the payloads (RFC 4648)
RFC4648(b) ==
  CASE b = <<255>> -> <<47, 119, 61, 61>>                           \* "/w=="
    [] b = <<0, 255, 77, 16, 131>> -> <<65, 80, 57, 78, 69, 73, 77, 61>>
                                                                \* "AP9NEIM="
    [] OTHER -> <<>>

\* C6: a load(f, e) that directly follows store(f, b, e) returns exactly b;
\* after store(f, b, true) the file holds the base64 text of b and
\* load(f, false) returns that text.
C6_StoreLoadRoundTrip ==
  [][ (last.op = "saveData" /\ last'.op = "loadData"
       /\ last'.filename = last.filename) =>
        /\ last'.crypt = last.crypt =>
             last'.kind = "bytes" /\ last'.bytes = last.arg
        /\ (last.crypt /\ ~last'.crypt) =>
             last'.kind = "bytes" /\ last'.bytes = RFC4648(last.arg) ]_vars

\* an encoded load has returned the 5-byte payload from a file that holds
\* its 8 base64 characters, in a directory whose last store evicted nothing
C6_Witness ==
  /\ last.op = "loadData"
  /\ last.crypt
  /\ last.kind = "bytes"
  /\ last.bytes = <<0, 255, 77, 16, 131>>
  /\ dir.file[last.filename].data = <<65, 80, 57, 78, 69, 73, 77, 61>>

\* C7: check and loadData create, delete and rewrite nothing; on an absent
\* key they return None and leave the directory as it is, timestamps
\* included; on a present key only that entry's timestamp moves, to the
\* latest.
C7_ProbeAndLoadFrame ==
  [][ last'.op \in {"check", "loadData"} =>
        LET f == last'.filename IN
        /\ dir'.file = dir.file
        /\ ~dir.file[f].exists => (dir' = dir /\ last'.kind = "None")
        /\ dir.file[f].exists =>
             /\ dir'.byMtime = Append(Remove(dir.byMtime, f), f)
             /\ last'.kind # "None" ]_vars

\* a load has returned the bytes of an entry of a directory that is over
\* budget with a non-retained entry beyond the two most recent: an eviction
\* pass would have deleted an entry, and none ran
C7_Witness ==
  /\ last.op = "loadData"
  /\ last.kind = "bytes"
  /\ dirSize(dir) > maxSize
  /\ Len(dir.byMtime) >= 3
  /\ ~(Surplus(dir) \subseteq keep)

\* ------------------------------------------------------------------------
\* Properties of the elevation lookup and of the map composition
\* ------------------------------------------------------------------------
FailureKinds == {"HTTPError", "ConnectionError"}

\* C8: getElevation terminates, and when it has returned no point of the
\* list lacks an elevation.
C8_ElevationFieldComplete ==
  pc = "returned" => \A i \in DOMAIN pointList : ~lacksEle(pointList[i])

\* C9: a failed fetch of an elevation tile, whatever the failure, does not
\* stop the run: no exception leaves getElevation and the loop goes on.
C9_TileFailureNeverStopsRun ==
  net.kind \in FailureKinds => (pc = "loop" /\ exc = "none")

\* C10: a failed fetch of a map tile, whatever the failure, leaves getMap
\* running; when getMap has returned, the canvas is dx*256 by dy*256 pixels
\* and every tile on it is pasted at the offset (i*256, j*256) of a grid
\* position.
C10_MapToleratesTileFailures ==
  /\ net.kind \in FailureKinds => (pc = "tiles" /\ exc = "none")
  /\ pc = "returned" =>
       /\ mapImg.size = <<dxOf(mapBBoxXY) * 256, dyOf(mapBBoxXY) * 256>>
       /\ \A t \in mapImg.pasted :
            \E i \in 0..(dxOf(mapBBoxXY) - 1), j \in 0..(dyOf(mapBBoxXY) - 1) :
               t.at = <<i * 256, j * 256>>

\* the cache key of the tile that the pass about to run asks for, "" when the
\* pass asks for none (it returns or breaks instead)
requestedKey ==
  IF pc = "loop" THEN
    LET i == firstLacking(pointList) IN
    IF i = 0 \/ int(pointList[i].lat) = 0 THEN ""
    ELSE DEM_TILE_NAME(tileId(int(pointList[i].lat), int(pointList[i].lon)))
  ELSE IF pc = "tiles" /\ pos[1] < dxOf(mapBBoxXY)
  THEN tileCacheFilename(mapBBoxXY[1].x + pos[1], mapBBoxXY[1].y + pos[2])
  ELSE ""

\* the pass has issued a remote fetch
Fetches == requestedKey # "" /\ net' # NoFetch

\* a fetch that answered 200 leaves its payload in the cache under the key
StoresPayload ==
  net'.kind = "ok" =>
    /\ dir'.file[requestedKey].exists
    /\ dir'.file[requestedKey].data = net'.content

Serves(key) ==
  /\ dir.file[key].exists
  /\ pc = "tiles" => dir.file[key].data # <<>>

RedirectsWithAuth ==
  /\ request # NoRequest
  /\ request' # request
  /\ "Authorization" \in request.headers

\* C12 as stated: when a request carrying an Authorization header is
\* redirected, rebuild_auth keeps the header only when the redirect target
\* host or the originating host is urs.earthdata.nasa.gov, and removes it on
\* a redirect to any other host.  Violated by a redirection that stays on the
\* originating host.
C12_KeptOnlyAroundAuthHost ==
  [][ RedirectsWithAuth =>
        ("Authorization" \in request'.headers
           <=> (request'.hostname = AUTH_HOST \/ request.hostname = AUTH_HOST))
    ]_vars

\* C12 amended: when a request carrying an Authorization header is
\* redirected, rebuild_auth keeps the header exactly when the redirect target
\* host or the originating host is urs.earthdata.nasa.gov, or the target host
\* is the originating host itself; on a redirect between two different hosts
\* neither of which is the authentication host the header is removed.  No
\* other header is touched, and a removed header does not come back.
C12_KeptAroundAuthHostOrSameHost ==
  [][ /\ RedirectsWithAuth =>
           /\ "Authorization" \in request'.headers
                <=> \/ request'.hostname = AUTH_HOST
                    \/ request.hostname = AUTH_HOST
                    \/ request'.hostname = request.hostname
           /\ request'.headers \ {"Authorization"}
                = request.headers \ {"Authorization"}
      /\ (request # NoRequest /\ "Authorization" \notin request.headers)
           => "Authorization" \notin request'.headers ]_vars

\* the header has been removed on a redirection between two hosts other than
\* the authentication host, after it had been kept through that host
C12_Witness ==
  /\ Len(request.history) = 3
  /\ request.history[1] = DEM_HOST
  /\ request.history[2] = AUTH_HOST
  /\ request.history[3] = DEM_HOST
  /\ request.hostname = "example.org"
  /\ request.headers = {"User-Agent"}

\* the derived fields of point k + 1 against those of point k
Grows(field, k) == trk.derived[k][field] <= trk.derived[k + 1][field]

\* when processTracks has enriched the track, every point has its four fields
AllPointsEnriched ==
  trk.state = "processed" => Len(trk.derived) = Len(pointList)

lastKnown(pl, k) ==
  IF \E j \in 1..(k - 1) : ~lacksEle(pl[j])
  THEN LET j == CHOOSE j \in 1..(k - 1) :
                  /\ ~lacksEle(pl[j])
                  /\ \A m \in (j + 1)..(k - 1) : lacksEle(pl[m])
       IN pl[j].ele
  ELSE 1

\* the pass has run the fallback: getTile has returned None for the tile of
\* the first point without elevation
FallsBack ==
  /\ pc = "loop"
  /\ pc' = "loop"
  /\ net'.kind = "HTTPError"

PairPass == trk.state = "pairs" /\ Len(trk'.derived) = Len(trk.derived) + 1

\* the first k points are enriched: every consecutive pair is within the
\* slope limit for the distance used for it, and ascent plus (negative)
\* descent is the climb from the first point, so that a clamped sample has
\* added nothing to either total
WithinSlope(pl, t, k) ==
  \A m \in 2..k :
    /\ 10 * abs(pl[m].ele - pl[m - 1].ele)
         <= 12 * (t.derived[m].dist - t.derived[m - 1].dist)
    /\ t.derived[m].ascent + t.derived[m].descent = pl[m].ele - pl[1].ele

cell(pt) == << pt.lat \div 4, pt.lon \div 4 >>

\* the key getElevation forms for a point
keyOf(pt) == DEM_TILE_NAME(tileId(int(pt.lat), int(pt.lon)))

\* C16: two points of the list handed to getElevation are given the same DEM
\* tile key, and are assigned in the same pass, if and only if they lie in
\* the same one-degree by one-degree cell, negative and sub-degree coordinates
\* included.  Violated: int() truncates toward zero, so the cells on the two
\* sides of the equator or of the Greenwich meridian share a key.
C16_OneKeyPerCell ==
  pc # "idle" =>
    \A j \in DOMAIN pointList, k \in DOMAIN pointList :
      /\ keyOf(pointList[j]) = keyOf(pointList[k])
           <=> cell(pointList[j]) = cell(pointList[k])
      /\ inTile(pointList[j], int(pointList[k].lat), int(pointList[k].lon))
           <=> cell(pointList[j]) = cell(pointList[k])

\* C17: on a tile whose samples all equal k, computePointElevation returns
\* exactly k for every point, tile edges and negative coordinates included;
\* the four sampled positions lie inside the grid and the four interpolation
\* weights are non-negative and sum to 1 (16 sixteenths).
C17_UniformTile ==
  (pc = "interpolate" /\ pointList # <<>>) =>
    LET pt == pointList[1]
        k  == dir.file["N01E002.SRTMGL1.hgt.zip"].data[1]
        x  == tileX(pt.lon, FineUnit)
        y  == tileY(pt.lat, FineUnit)
    IN /\ pt.ele = 1000 * k
       /\ \A i \in 0..1, j \in 0..1 :
            /\ xx(x, i) \in 0..(DEM_RESOLUTION - 1)
            /\ yy(y, j) \in 0..(DEM_RESOLUTION - 1)
            /\ weight(x, y, i, j) >= 0
       /\ weight(x, y, 0, 0) + weight(x, y, 0, 1)
            + weight(x, y, 1, 0) + weight(x, y, 1, 1) = 16

\* a point in the last quarter sample of the east edge and above the first
\* row, at negative coordinates, on the tile of samples 65535
C17_Witness ==
  /\ pc = "interpolate"
  /\ pointList # <<>>
  /\ pointList[1].lon = 0 - 1
  /\ pointList[1].lat = 0 - 1
  /\ int(tileX(pointList[1].lon, FineUnit)) = DEM_RESOLUTION - 1
  /\ tileY(pointList[1].lat, FineUnit) < 0
  /\ pointList[1].ele = 65535000

\* C18: getElevation only fills missing values: no pass changes the
\* elevation of a point that has one, so that a point with an elevation at
\* the call has the same elevation on return, whether its tile is resolved
\* or falls back; and no latitude or longitude is ever changed.  Violated by
\* a pass that reads a tile: it assigns every point of the tile.
C18_OnlyFillsMissing ==
  [][ (pc = "loop" /\ trk = NoTrack) =>
        /\ Len(pointList') = Len(pointList)
        /\ \A k \in DOMAIN pointList :
             /\ pointList'[k].lat = pointList[k].lat
             /\ pointList'[k].lon = pointList[k].lon
             /\ ~lacksEle(pointList[k])
                  => pointList'[k].ele = pointList[k].ele ]_vars

\* C19: once getElevation has returned, processTracks completes and writes
\* the summary (distance, ascent, descent, time, processed flag) of every
\* track that has at least one point; for a track of one point the summary
\* is distance 0, ascent 0, descent 0 and elapsed time 0.  Violated by the
\* track of one point: the summary is read from tp1, which only the loop over
\* the pairs binds.
C19_ShortTracksSummarised ==
  (trk.state \in {"processed", "raised"} /\ Len(pointList) >= 1) =>
    /\ trk.state = "processed"
    /\ exc = "none"
    /\ trk.summary.processed
    /\ Len(pointList) = 1 =>
         /\ trk.summary.distance = 0
         /\ trk.summary.ascent = 0
         /\ trk.summary.descent = 0
         /\ trk.summary.time = <<0, 0>>

====
